---------------------------- MODULE Spec2Model ----------------------------
(***************************************************************************)
(* The social interaction engine of daily-novel: likes, contact requests,  *)
(* conversations and direct messages (app/services/social_service.py) over *)
(* the entries of app/services/entry_service.py and the tables of          *)
(* app/models.py.                                                          *)
(*                                                                         *)
(* Every service method opens its own database session.  A method is       *)
(* modelled as the sequence of its statements that touch the database:     *)
(* each read sees the rows committed so far, and the rows a session adds,  *)
(* changes or deletes become visible to the others at its commit, all at   *)
(* once.  Spec and SpecPair run the methods one call at a time; in         *)
(* SpecConcLike, SpecConcSend and SpecConcRespond the calls of two web     *)
(* workers interleave statement by statement.                              *)
(***************************************************************************)
EXTENDS Integers, Sequences, FiniteSets, TLC

(* ------------------------------ bounds -------------------------------- *)
\* contact requests in the table, in the runs with three users
MaxRequests == 1
\* direct messages in the table
MaxMessages == 2
\* readings of the clock
MaxClock == 2

(* ------------------------- the fixed universe ------------------------- *)
\* rows of the users table; no service method of the engine writes it
Users == {1, 2, 3}
\* the two users of the runs about one pair of users
Pair == {1, 2}
\* User.display_name
DisplayName(u) == <<"alice", "bob", "carol">>[u]
\* values of DailyEntry.entry_date
Dates == {1}
\* values of ContactRequestCreate.message
Messages == {"hello", "hi again"}
\* values of DirectMessageCreate.message_text
Texts == {"hi"}
\* values of DailyEntryCreate.reflection_text
Reflections == {"first", "second"}
\* values of the limit of get_conversation_messages: one message, the default
Limits == {1, 50}
\* web workers that may run a service method each
Procs == {1, 2}
\* the one worker of the runs in which calls do not overlap
SeqProcs == {1}
\* an id no row has: Optional[...] = None, or a primary key that is absent
None == 0

\* MessageStatus
PENDING == "pending"
ACCEPTED == "accepted"
DECLINED == "declined"

VARIABLES
    entries,      \* table daily_entries
    likes,        \* table reflection_likes
    requests,     \* table contact_requests
    convs,        \* table conversations
    messages,     \* table direct_messages
    clock,        \* datetime.utcnow()
    txn,          \* per worker: the open session and the locals of its method
    ret,          \* per worker: the last call and what it returned
    call          \* per worker: the arguments its caller passed, where the
                  \* caller keeps them

vars == <<entries, likes, requests, convs, messages, clock, txn, ret, call>>
db == <<entries, likes, requests, convs, messages>>

(* ------------------------------ helpers ------------------------------- *)
Idle == [pc |-> "idle", uid |-> None, eid |-> None, rid |-> None, cid |-> None,
         other |-> None, msg |-> "", flag |-> FALSE, found |-> None,
         stamp |-> 0, ids |-> {}]

NoCall == [op |-> "none", res |-> None]

\* what a caller that keeps no arguments holds
NoArgs == [op |-> "none", ids |-> <<>>, flag |-> FALSE, text |-> ""]

\* the caller of worker p keeps the method and the arguments of its call:
\* the ids in the order of the parameters, the boolean and the text
Called(p, op, ids, flag, text) ==
    call' = [call EXCEPT ![p] = [op |-> op, ids |-> ids, flag |-> flag,
                                 text |-> text]]

InFlight(pcs) == Cardinality({q \in Procs : txn[q].pc \in pcs})

\* the method returns: the session closes and the result is handed back
Return(p, op, res) ==
    /\ txn' = [txn EXCEPT ![p] = Idle]
    /\ ret' = [ret EXCEPT ![p] = [op |-> op, res |-> res]]

\* the method goes on to its next statement; the result of the worker's
\* previous call is gone once it is in a new call
Goto(p, t) ==
    /\ txn' = [txn EXCEPT ![p] = t]
    /\ ret' = [ret EXCEPT ![p] = NoCall]

\* session.get(Model, id): the rows with that primary key (none or one)
Get(table, id) == {r \in table : r.id = id}

\* the primary key the database gives a row added to a table that never
\* loses rows
NextId(table) == Cardinality(table) + 1

\* the ids 1..n in ascending order of the rows of S
RECURSIVE SeqById(_)
SeqById(S) ==
    IF S = {} THEN <<>>
    ELSE LET r == CHOOSE x \in S : \A y \in S : x.id <= y.id
         IN  <<r>> \o SeqById(S \ {r})

(* ------------------------------ entries ------------------------------- *)
\* the rows create_entry looks for: the user's entries for the date
EntriesFor(u, d) == {e \in entries : e.author_id = u /\ e.entry_date = d}

\* EntryService.create_entry: the existence check, then the row is built
create_entry_select(p, u, d, shared, text) ==
    /\ txn[p].pc = "idle"
    /\ IF EntriesFor(u, d) # {}
       THEN Return(p, "create_entry", None)
       ELSE Goto(p, [Idle EXCEPT !.pc = "ce_commit", !.uid = u,
                                 !.other = d, !.flag = shared, !.msg = text,
                                 !.stamp = clock])
    /\ UNCHANGED <<db, clock>>

\* EntryService.create_entry: session.add, commit, refresh
create_entry_commit(p) ==
    /\ txn[p].pc = "ce_commit"
    /\ entries' = entries \cup {[id |-> NextId(entries),
                                 author_id |-> txn[p].uid,
                                 entry_date |-> txn[p].other,
                                 reflection_text |-> txn[p].msg,
                                 is_shared |-> txn[p].flag,
                                 updated_at |-> txn[p].stamp]}
    /\ Return(p, "create_entry", NextId(entries))
    /\ UNCHANGED <<likes, requests, convs, messages, clock>>

\* an update that any user may make
update_entry_get_anyuser(p, e, u, upd, txt) ==
    /\ txn[p].pc = "idle"
    /\ LET entry == Get(entries, e) IN
       IF entry = {}
       THEN Return(p, "update_entry", None)
       ELSE \E x \in entry :
              Goto(p, [Idle EXCEPT !.pc = "ue_commit", !.eid = e, !.uid = u,
                          !.flag = IF upd = <<>> THEN x.is_shared ELSE upd[1],
                          !.found = IF upd # <<>> /\ upd[1] # x.is_shared
                                    THEN 1 ELSE None,
                          !.msg = IF txt = <<>> THEN x.reflection_text
                                  ELSE txt[1],
                          !.other = IF txt # <<>> /\ txt[1] # x.reflection_text
                                    THEN 1 ELSE None,
                          !.stamp = clock])
    /\ UNCHANGED <<db, clock>>

\* EntryService.update_entry: load the entry, check the author, set the
\* attributes and updated_at; upd is update_data.is_shared and txt is
\* update_data.reflection_text, <<>> for None
update_entry_get(p, e, u, upd, txt) ==
    /\ txn[p].pc = "idle"
    /\ LET entry == Get(entries, e) IN
       IF entry = {} \/ \E x \in entry : x.author_id # u
       THEN Return(p, "update_entry", None)
       ELSE \E x \in entry :
              Goto(p, [Idle EXCEPT !.pc = "ue_commit", !.eid = e, !.uid = u,
                          !.flag = IF upd = <<>> THEN x.is_shared ELSE upd[1],
                          !.found = IF upd # <<>> /\ upd[1] # x.is_shared
                                    THEN 1 ELSE None,
                          !.msg = IF txt = <<>> THEN x.reflection_text
                                  ELSE txt[1],
                          !.other = IF txt # <<>> /\ txt[1] # x.reflection_text
                                    THEN 1 ELSE None,
                          !.stamp = clock])
    /\ UNCHANGED <<db, clock>>

\* EntryService.update_entry: commit writes the attributes that changed
update_entry_commit(p) ==
    /\ txn[p].pc = "ue_commit"
    /\ entries' = {IF x.id = txn[p].eid
                   THEN [x EXCEPT
                           !.is_shared = IF txn[p].found # None
                                         THEN txn[p].flag ELSE @,
                           !.reflection_text = IF txn[p].other # None
                                               THEN txn[p].msg ELSE @,
                           !.updated_at = txn[p].stamp]
                   ELSE x : x \in entries}
    /\ Return(p, "update_entry", txn[p].eid)
    /\ UNCHANGED <<likes, requests, convs, messages, clock>>

(* ------------------------------- likes -------------------------------- *)
\* the rows of a user's like on an entry
LikesOf(u, e) == {l \in likes : l.user_id = u /\ l.daily_entry_id = e}

\* SocialService.get_entry_likes_count
get_entry_likes_count(e) == Cardinality({l \in likes : l.daily_entry_id = e})

\* a like gate that lets every sender through
user_has_liked_entry_always(u, e) == TRUE

\* SocialService.user_has_liked_entry
user_has_liked_entry(u, e) == LikesOf(u, e) # {}

\* a guard that lets authors like their own entries
LikeForbidden_selflike(entry, u) ==
    entry = {} \/ \E x \in entry : ~x.is_shared

\* a guard that lets entries that are not shared be liked
LikeForbidden_unshared(entry, u) ==
    entry = {} \/ \E x \in entry : x.author_id = u

\* SocialService.toggle_like, the guard on the entry
LikeForbidden(entry, u) ==
    entry = {} \/ \E x \in entry : ~x.is_shared \/ x.author_id = u

\* SocialService.toggle_like: load the entry and check it
toggle_like_get_entry(p, u, e) ==
    /\ txn[p].pc = "idle"
    /\ IF LikeForbidden(Get(entries, e), u)
       THEN Return(p, "toggle_like", FALSE)
       ELSE Goto(p, [Idle EXCEPT !.pc = "tl_select", !.uid = u, !.eid = e])
    /\ UNCHANGED <<db, clock>>

\* SocialService.toggle_like: select the existing like, .first()
toggle_like_select(p) ==
    /\ txn[p].pc = "tl_select"
    /\ LET existing == LikesOf(txn[p].uid, txn[p].eid) IN
       IF existing = {}
       THEN Goto(p, [txn[p] EXCEPT !.pc = "tl_commit", !.found = None])
       ELSE \E l \in existing :
              Goto(p, [txn[p] EXCEPT !.pc = "tl_commit", !.found = l.id])
    /\ UNCHANGED <<db, clock>>

\* the key the database gives a new like: one that no like of the same
\* user and entry has and no open session still holds (the code compares
\* a like's key only with the keys of the likes of that user and entry)
NextLikeId(u, e) ==
    LET used == {l.id : l \in LikesOf(u, e)} \cup
                {txn[q].found : q \in {x \in Procs : txn[x].pc = "tl_commit"
                                        /\ txn[x].uid = u /\ txn[x].eid = e}}
    IN  CHOOSE i \in 1..(Cardinality(used) + 1) :
            i \notin used /\ \A j \in 1..(i - 1) : j \in used

\* a toggle that never deletes
LikesAfterToggle_keep(found, u, e) ==
    IF found # None THEN likes
    ELSE likes \cup {[id |-> NextLikeId(u, e), user_id |-> u,
                      daily_entry_id |-> e]}

\* the likes table after toggle_like's commit: the like found is deleted,
\* or a new one is added
LikesAfterToggle(found, u, e) ==
    IF found # None
    THEN {l \in likes : ~(l.user_id = u /\ l.daily_entry_id = e /\ l.id = found)}
    ELSE likes \cup {[id |-> NextLikeId(u, e), user_id |-> u,
                      daily_entry_id |-> e]}

\* SocialService.toggle_like: delete or add, and commit
toggle_like_commit(p) ==
    /\ txn[p].pc = "tl_commit"
    /\ likes' = LikesAfterToggle(txn[p].found, txn[p].uid, txn[p].eid)
    /\ Return(p, "toggle_like", txn[p].found = None)
    /\ UNCHANGED <<entries, requests, convs, messages, clock>>

(* -------------------------- contact requests -------------------------- *)
\* the rows send_contact_request looks for: same sender, recipient, entry
RequestsFor(s, r, e) ==
    {x \in requests : x.sender_id = s /\ x.recipient_id = r
                      /\ x.daily_entry_id = e}

\* a guard on the entry that lets any recipient through
RequestForbidden_anyrecipient(entry, r) ==
    entry = {} \/ \E x \in entry : ~x.is_shared

\* a guard that lets requests through for entries that are not shared
RequestForbidden_private(entry, r) ==
    entry = {} \/ \E x \in entry : x.author_id # r

\* SocialService.send_contact_request, the guard on the entry
RequestForbidden(entry, r) ==
    entry = {} \/ \E x \in entry : ~x.is_shared \/ x.author_id # r

\* SocialService.send_contact_request: load the entry and check it
send_contact_request_get_entry(p, s, r, e, m) ==
    /\ txn[p].pc = "idle"
    /\ IF RequestForbidden(Get(entries, e), r)
       THEN Return(p, "send_contact_request", None)
       ELSE Goto(p, [Idle EXCEPT !.pc = "scr_has_liked", !.uid = s,
                                 !.other = r, !.eid = e, !.msg = m])
    /\ UNCHANGED <<db, clock>>

\* SocialService.send_contact_request: the like gate
send_contact_request_has_liked(p) ==
    /\ txn[p].pc = "scr_has_liked"
    /\ IF ~user_has_liked_entry(txn[p].uid, txn[p].eid)
       THEN Return(p, "send_contact_request", None)
       ELSE Goto(p, [txn[p] EXCEPT !.pc = "scr_select"])
    /\ UNCHANGED <<db, clock>>

\* a send that never looks for the request it may already have sent
send_contact_request_select_nocheck(p) ==
    /\ txn[p].pc = "scr_select"
    /\ Goto(p, [txn[p] EXCEPT !.pc = "scr_commit", !.stamp = clock])
    /\ UNCHANGED <<db, clock>>

\* SocialService.send_contact_request: select the existing request,
\* .first(); without one the new row is built (created_at is set here)
send_contact_request_select(p) ==
    /\ txn[p].pc = "scr_select"
    /\ LET existing == RequestsFor(txn[p].uid, txn[p].other, txn[p].eid) IN
       IF existing # {}
       THEN \E x \in existing :
              Return(p, "send_contact_request", x.id)
       ELSE Goto(p, [txn[p] EXCEPT !.pc = "scr_commit", !.stamp = clock])
    /\ UNCHANGED <<db, clock>>

\* the row ContactRequest(...) of send_contact_request, with the defaults
\* of the model class
NewRequest(id, s, r, e, m, now) ==
    [id |-> id, sender_id |-> s, recipient_id |-> r, daily_entry_id |-> e,
     message |-> m, status |-> PENDING, created_at |-> now,
     responded_at |-> None]

\* SocialService.send_contact_request: session.add, commit, refresh
send_contact_request_commit(p) ==
    /\ txn[p].pc = "scr_commit"
    /\ requests' = requests \cup
          {NewRequest(NextId(requests), txn[p].uid, txn[p].other, txn[p].eid,
                      txn[p].msg, txn[p].stamp)}
    /\ Return(p, "send_contact_request", NextId(requests))
    /\ UNCHANGED <<entries, likes, convs, messages, clock>>

\* a guard that lets anyone respond to a request that exists
RespondForbidden_anyone(request, u) == request = {}

\* a guard that asks again for the sender's like
RespondForbidden_unliked(request, u) ==
    \/ request = {}
    \/ \E x \in request :
          x.recipient_id # u \/ LikesOf(x.sender_id, x.daily_entry_id) = {}

\* SocialService.respond_to_contact_request, the guard: the request exists
\* and the caller is its recipient
RespondForbidden(request, u) ==
    request = {} \/ \E x \in request : x.recipient_id # u

\* the status respond_to_contact_request sets
NewStatus(accept) == IF accept THEN ACCEPTED ELSE DECLINED

\* SocialService.respond_to_contact_request: load the request, check it,
\* set status and responded_at on it
respond_to_contact_request_get(p, rid, u, accept) ==
    /\ txn[p].pc = "idle"
    /\ LET request == Get(requests, rid) IN
       IF RespondForbidden(request, u)
       THEN Return(p, "respond_to_contact_request", None)
       ELSE \E x \in request :
              Goto(p, [Idle EXCEPT
                         !.pc = IF accept THEN "rcr_create_conversation"
                                ELSE "rcr_commit",
                         !.rid = rid, !.uid = u, !.other = x.sender_id,
                         !.flag = accept, !.stamp = clock])
    /\ UNCHANGED <<db, clock>>

\* a selection that keeps the requests that were answered
PendingOf_anystatus(u) == {r \in requests : r.recipient_id = u}

\* the rows get_pending_contact_requests selects
PendingOf(u) ==
    {r \in requests : r.recipient_id = u /\ r.status = PENDING}

\* SocialService.get_pending_contact_requests: the lists it may return,
\* newest created_at first, rows of one created_at in any order
get_pending_contact_requests(u) ==
    LET rows == PendingOf(u)
        n == Cardinality(rows)
    IN  {q \in [1..n -> rows] :
           /\ \A i, j \in 1..n : i # j => q[i] # q[j]
           /\ \A i, j \in 1..n : i < j => q[i].created_at >= q[j].created_at}

\* SocialService.get_pending_contact_requests, called
get_pending_contact_requests_call(p, u) ==
    /\ txn[p].pc = "idle"
    /\ \E list \in get_pending_contact_requests(u) :
          Return(p, "get_pending_contact_requests", list)
    /\ UNCHANGED <<db, clock>>

(* --------------------------- conversations ---------------------------- *)
\* the pair as it comes, sender first
OrderedPair_asgiven(user1_id, user2_id) == <<user1_id, user2_id>>

\* SocialService._create_conversation: consistent ordering of the user ids
OrderedPair(user1_id, user2_id) ==
    IF user1_id > user2_id THEN <<user2_id, user1_id>>
    ELSE <<user1_id, user2_id>>

\* the rows _create_conversation looks for
ConversationsOf(pair) ==
    {c \in convs : c.user1_id = pair[1] /\ c.user2_id = pair[2]}

\* SocialService._create_conversation up to its flush: the existing
\* conversation, .first(), or none and a row to add
respond_to_contact_request_create_conversation(p) ==
    /\ txn[p].pc = "rcr_create_conversation"
    /\ LET existing == ConversationsOf(OrderedPair(txn[p].other, txn[p].uid)) IN
       IF existing # {}
       THEN \E c \in existing :
              Goto(p, [txn[p] EXCEPT !.pc = "rcr_commit", !.found = c.id])
       ELSE Goto(p, [txn[p] EXCEPT !.pc = "rcr_commit", !.found = None])
    /\ UNCHANGED <<db, clock>>

\* an accept that adds no conversation
_create_conversation_skip(user1_id, user2_id, found) == convs

\* the conversations table after the commit of an accepted response: the
\* row _create_conversation added, when it found none
_create_conversation(user1_id, user2_id, found) ==
    IF found # None THEN convs
    ELSE convs \cup {[id |-> NextId(convs),
                      user1_id |-> OrderedPair(user1_id, user2_id)[1],
                      user2_id |-> OrderedPair(user1_id, user2_id)[2],
                      last_message_at |-> None]}

\* a response that stores the status alone
RequestsAfterResponse_nostamp(rid, accept, now) ==
    {IF x.id = rid THEN [x EXCEPT !.status = NewStatus(accept)] ELSE x
     : x \in requests}

\* the contact_requests table after the commit of a response
RequestsAfterResponse(rid, accept, now) ==
    {IF x.id = rid
     THEN [x EXCEPT !.status = NewStatus(accept), !.responded_at = now]
     ELSE x : x \in requests}

\* a commit that creates the conversation whatever the answer
respond_to_contact_request_commit_anyanswer(p) ==
    /\ txn[p].pc = "rcr_commit"
    /\ requests' = RequestsAfterResponse(txn[p].rid, txn[p].flag, txn[p].stamp)
    /\ convs' = _create_conversation(txn[p].other, txn[p].uid, txn[p].found)
    /\ Return(p, "respond_to_contact_request", txn[p].rid)
    /\ UNCHANGED <<entries, likes, messages, clock>>

\* SocialService.respond_to_contact_request: commit, refresh
respond_to_contact_request_commit(p) ==
    /\ txn[p].pc = "rcr_commit"
    /\ requests' = RequestsAfterResponse(txn[p].rid, txn[p].flag, txn[p].stamp)
    /\ convs' = IF txn[p].flag
                THEN _create_conversation(txn[p].other, txn[p].uid, txn[p].found)
                ELSE convs
    /\ Return(p, "respond_to_contact_request", txn[p].rid)
    /\ UNCHANGED <<entries, likes, messages, clock>>

\* an unread count that counts the user's own messages too
UnreadCount_own(conv_id, u) ==
    Cardinality({m \in messages : m.conversation_id = conv_id /\ ~m.is_read})

\* the unread count of get_user_conversations
UnreadCount(conv_id, u) ==
    Cardinality({m \in messages : m.conversation_id = conv_id
                                  /\ m.sender_id # u /\ ~m.is_read})

\* a response that names the caller instead of the other user
ConversationResponse_self(conv, u) ==
    [id |-> conv.id,
     other_user_display_name |-> DisplayName(u),
     last_message_at |-> conv.last_message_at,
     unread_count |-> UnreadCount(conv.id, u)]

\* the ConversationResponse get_user_conversations builds for a row
ConversationResponse(conv, u) ==
    LET other_user_id == IF conv.user1_id = u THEN conv.user2_id
                         ELSE conv.user1_id
    IN  [id |-> conv.id,
         other_user_display_name |-> DisplayName(other_user_id),
         last_message_at |-> conv.last_message_at,
         unread_count |-> UnreadCount(conv.id, u)]

\* SocialService.get_user_conversations: the result list
get_user_conversations(u) ==
    LET rows == SeqById({c \in convs : c.user1_id = u \/ c.user2_id = u})
    IN  [i \in 1..Len(rows) |-> ConversationResponse(rows[i], u)]

\* SocialService.get_user_conversations, called
get_user_conversations_call(p, u) ==
    /\ txn[p].pc = "idle"
    /\ Return(p, "get_user_conversations", get_user_conversations(u))
    /\ UNCHANGED <<db, clock>>

(* ------------------------------ messages ------------------------------ *)
\* a check that lets every user into a conversation that exists
NotParticipant_anyone(conversation, u) == conversation = {}

\* SocialService.send_message and the other methods that take a
\* conversation: the conversation exists and the user is one of its two
NotParticipant(conversation, u) ==
    conversation = {}
    \/ \E c \in conversation : u \notin {c.user1_id, c.user2_id}

\* SocialService.send_message: load the conversation, check the sender,
\* build the message and set last_message_at on the conversation
send_message_get(p, s, c, text) ==
    /\ txn[p].pc = "idle"
    /\ IF NotParticipant(Get(convs, c), s)
       THEN Return(p, "send_message", None)
       ELSE Goto(p, [Idle EXCEPT !.pc = "sm_commit", !.uid = s, !.cid = c,
                                 !.msg = text, !.stamp = clock])
    /\ UNCHANGED <<db, clock>>

\* a send that leaves the conversation as it was
ConversationsAfterSend_stale(cid, now) == convs

\* the conversations table after send_message's commit
ConversationsAfterSend(cid, now) ==
    {IF c.id = cid THEN [c EXCEPT !.last_message_at = now] ELSE c : c \in convs}

\* SocialService.send_message: commit, refresh
send_message_commit(p) ==
    /\ txn[p].pc = "sm_commit"
    /\ messages' = messages \cup {[id |-> NextId(messages),
                                   conversation_id |-> txn[p].cid,
                                   sender_id |-> txn[p].uid,
                                   message_text |-> txn[p].msg,
                                   created_at |-> txn[p].stamp,
                                   is_read |-> FALSE]}
    /\ convs' = ConversationsAfterSend(txn[p].cid, txn[p].stamp)
    /\ Return(p, "send_message", NextId(messages))
    /\ UNCHANGED <<entries, likes, requests, clock>>

\* a selection that takes the caller's own messages too
UnreadFor_own(c, u) ==
    {m.id : m \in {x \in messages : x.conversation_id = c /\ ~x.is_read}}

\* a selection that finds nothing to mark
UnreadFor_none(c, u) == {}

\* the messages mark_messages_as_read selects: unread, from the other user
UnreadFor(c, u) ==
    {m.id : m \in {x \in messages : x.conversation_id = c
                                    /\ x.sender_id # u /\ ~x.is_read}}

\* SocialService.mark_messages_as_read: check the user, select the messages
mark_messages_as_read_get(p, c, u) ==
    /\ txn[p].pc = "idle"
    /\ IF NotParticipant(Get(convs, c), u)
       THEN Return(p, "mark_messages_as_read", FALSE)
       ELSE Goto(p, [Idle EXCEPT !.pc = "mr_commit", !.uid = u, !.cid = c,
                                 !.ids = UnreadFor(c, u)])
    /\ UNCHANGED <<db, clock>>

\* SocialService.mark_messages_as_read: is_read = True on each, commit
mark_messages_as_read_commit(p) ==
    /\ txn[p].pc = "mr_commit"
    /\ messages' = {IF m.id \in txn[p].ids THEN [m EXCEPT !.is_read = TRUE]
                    ELSE m : m \in messages}
    /\ Return(p, "mark_messages_as_read", TRUE)
    /\ UNCHANGED <<entries, likes, requests, convs, clock>>

\* the rows of get_conversation_messages' query in the orders the database
\* may give them: newest created_at first, rows of one created_at in any
\* order
NewestFirst(c) ==
    LET rows == {m \in messages : m.conversation_id = c}
        n == Cardinality(rows)
    IN  {q \in [1..n -> rows] :
           /\ \A i, j \in 1..n : i # j => q[i] # q[j]
           /\ \A i, j \in 1..n : i < j => q[i].created_at >= q[j].created_at}

\* the DirectMessageResponse get_conversation_messages builds for a row
DirectMessageResponse(message) ==
    [id |-> message.id,
     sender_display_name |-> DisplayName(message.sender_id),
     message_text |-> message.message_text,
     created_at |-> message.created_at,
     is_read |-> message.is_read]

\* the first limit rows of the query, newest first as the query gives them
Chronological_unreversed(q, limit) ==
    LET n == IF Len(q) < limit THEN Len(q) ELSE limit
    IN  [i \in 1..n |-> DirectMessageResponse(q[i])]

\* the last limit rows of the query, reversed
Chronological_oldest(q, limit) ==
    LET n == IF Len(q) < limit THEN Len(q) ELSE limit
    IN  [i \in 1..n |-> DirectMessageResponse(q[Len(q) + 1 - i])]

\* the first limit rows of the query, as responses, reversed
Chronological(q, limit) ==
    LET n == IF Len(q) < limit THEN Len(q) ELSE limit
    IN  [i \in 1..n |-> DirectMessageResponse(q[n + 1 - i])]

\* SocialService.get_conversation_messages: the lists it may return
get_conversation_messages(c, u, limit) ==
    IF NotParticipant(Get(convs, c), u) THEN {<<>>}
    ELSE {Chronological(q, limit) : q \in NewestFirst(c)}

\* SocialService.get_conversation_messages, called
get_conversation_messages_call(p, c, u, limit) ==
    /\ txn[p].pc = "idle"
    /\ \E list \in get_conversation_messages(c, u, limit) :
          Return(p, "get_conversation_messages", list)
    /\ UNCHANGED <<db, clock>>

(* --------------------------- specifications --------------------------- *)
\* the empty database of create_tables()
Init ==
    /\ entries = {}
    /\ likes = {}
    /\ requests = {}
    /\ convs = {}
    /\ messages = {}
    /\ clock = 1
    /\ txn = [p \in Procs |-> Idle]
    /\ ret = [p \in Procs |-> NoCall]
    /\ call = [p \in Procs |-> NoArgs]

\* time passes between two readings of datetime.utcnow()
Tick ==
    /\ clock < MaxClock
    /\ clock' = clock + 1
    /\ UNCHANGED <<db, txn, ret>>

\* a step that is no call: what the callers keep stays
Unobserved == UNCHANGED call

\* worker p in a call whose arguments its caller does not keep
Forgotten(p) == call' = [call EXCEPT ![p] = NoArgs]

\* ids a caller may pass: those of the rows, and one that no row has
EntryIds == {e.id : e \in entries} \cup {NextId(entries)}
RequestIds == {r.id : r \in requests} \cup {NextId(requests)}
ConversationIds == {c.id : c \in convs} \cup {NextId(convs)}

\* a new contact request fits the bound (a call that is rejected, or one
\* that finds the request it asks for, adds none)
RequestRoom(s, r, e, cap) ==
    \/ RequestForbidden(Get(entries, e), r)
    \/ LikesOf(s, e) = {}
    \/ RequestsFor(s, r, e) # {}
    \/ Cardinality(requests)
         + InFlight({"scr_has_liked", "scr_select", "scr_commit"}) < cap

\* a new message fits the bound
MessageRoom(s, c) ==
    \/ NotParticipant(Get(convs, c), s)
    \/ Cardinality(messages) + InFlight({"sm_commit"}) < MaxMessages

\* one statement of a worker in create_entry
CreateStep(p, authors, flags) ==
    \/ \E u \in authors, d \in Dates, shared \in flags :
          create_entry_select(p, u, d, shared, "first")
    \/ create_entry_commit(p)

\* one statement of a worker in update_entry
UpdateStep(p, users) ==
    \/ \E e \in EntryIds, u \in users, upd \in {<<>>, <<TRUE>>, <<FALSE>>} :
          update_entry_get(p, e, u, upd, <<>>)
    \/ update_entry_commit(p)

\* one statement of a worker in toggle_like
LikeStep(p, users) ==
    \/ \E u \in users, e \in EntryIds : toggle_like_get_entry(p, u, e)
    \/ toggle_like_select(p)
    \/ toggle_like_commit(p)

\* one statement of a worker in send_contact_request
RequestStep(p, users, msgs, cap) ==
    \/ \E s \in users, r \in users, e \in EntryIds, m \in msgs :
          /\ RequestRoom(s, r, e, cap)
          /\ send_contact_request_get_entry(p, s, r, e, m)
    \/ send_contact_request_has_liked(p)
    \/ send_contact_request_select(p)
    \/ send_contact_request_commit(p)

\* one statement of a worker in respond_to_contact_request
RespondStep(p, users) ==
    \/ \E rid \in RequestIds, u \in users, accept \in BOOLEAN :
          respond_to_contact_request_get(p, rid, u, accept)
    \/ respond_to_contact_request_create_conversation(p)
    \/ respond_to_contact_request_commit(p)

\* one statement of a worker in a method of the messaging
MessagingStep(p, users) ==
    \/ \E u \in users : get_user_conversations_call(p, u)
    \/ \E s \in users, c \in ConversationIds, text \in Texts :
          MessageRoom(s, c) /\ send_message_get(p, s, c, text)
    \/ send_message_commit(p)
    \/ \E c \in ConversationIds, u \in users : mark_messages_as_read_get(p, c, u)
    \/ mark_messages_as_read_commit(p)
    \/ \E c \in ConversationIds, u \in users, limit \in Limits :
          get_conversation_messages_call(p, c, u, limit)

\* one statement of a worker in send_message
SendStep(p, users) ==
    \/ \E s \in users, c \in ConversationIds, text \in Texts :
          MessageRoom(s, c) /\ send_message_get(p, s, c, text)
    \/ send_message_commit(p)

\* one statement of a worker in mark_messages_as_read
MarkStep(p, users) ==
    \/ \E c \in ConversationIds, u \in users : mark_messages_as_read_get(p, c, u)
    \/ mark_messages_as_read_commit(p)

\* one statement of a worker in a method of the messaging, the caller keeping
\* the arguments
MessagingCall(p, users) ==
    \/ \E u \in users :
          /\ get_user_conversations_call(p, u)
          /\ Called(p, "get_user_conversations", <<u>>, FALSE, "")
    \/ \E s \in users, c \in ConversationIds, text \in Texts :
          /\ MessageRoom(s, c)
          /\ send_message_get(p, s, c, text)
          /\ Called(p, "send_message", <<s, c>>, FALSE, text)
    \/ \E c \in ConversationIds, u \in users :
          /\ mark_messages_as_read_get(p, c, u)
          /\ Called(p, "mark_messages_as_read", <<c, u>>, FALSE, "")
    \/ \E c \in ConversationIds, u \in users, limit \in Limits :
          /\ get_conversation_messages_call(p, c, u, limit)
          /\ Called(p, "get_conversation_messages", <<c, u, limit>>, FALSE, "")
    \/ (send_message_commit(p) \/ mark_messages_as_read_commit(p)) /\ Unobserved

\* one statement of a worker in create_entry or update_entry, the caller
\* keeping the arguments
EntryCall(p, users, texts) ==
    \/ \E u \in users, d \in Dates, shared \in BOOLEAN, text \in texts :
          /\ create_entry_select(p, u, d, shared, text)
          /\ Called(p, "create_entry", <<u, d>>, shared, text)
    \/ \E e \in EntryIds, u \in users, upd \in {<<>>, <<TRUE>>, <<FALSE>>},
          txt \in {<<>>} \cup {<<t>> : t \in texts} :
          /\ update_entry_get(p, e, u, upd, txt)
          /\ Called(p, "update_entry", <<e, u>>, FALSE, "")
    \/ (create_entry_commit(p) \/ update_entry_commit(p)) /\ Unobserved

\* one statement of a worker in toggle_like, the caller keeping the arguments
LikeCall(p, users) ==
    \/ \E u \in users, e \in EntryIds :
          /\ toggle_like_get_entry(p, u, e)
          /\ Called(p, "toggle_like", <<u, e>>, FALSE, "")
    \/ (toggle_like_select(p) \/ toggle_like_commit(p)) /\ Unobserved

\* one statement of a worker in send_contact_request, the caller keeping
\* the arguments
RequestCall(p, users, msgs, cap) ==
    \/ \E s \in users, r \in users, e \in EntryIds, m \in msgs :
          /\ RequestRoom(s, r, e, cap)
          /\ send_contact_request_get_entry(p, s, r, e, m)
          /\ Called(p, "send_contact_request", <<s, r, e>>, FALSE, m)
    \/ /\ \/ send_contact_request_has_liked(p)
          \/ send_contact_request_select(p)
          \/ send_contact_request_commit(p)
       /\ Unobserved

\* one statement of a worker in respond_to_contact_request, the caller
\* keeping the arguments
RespondCall(p, users) ==
    \/ \E rid \in RequestIds, u \in users, accept \in BOOLEAN :
          /\ respond_to_contact_request_get(p, rid, u, accept)
          /\ Called(p, "respond_to_contact_request", <<rid, u>>, accept, "")
    \/ /\ \/ respond_to_contact_request_create_conversation(p)
          \/ respond_to_contact_request_commit(p)
       /\ Unobserved

\* The handshake around one entry: user 1 writes, all three users call, the
\* calls do not overlap.
Next ==
    /\ \/ Tick
       \/ \E p \in SeqProcs :
             \/ CreateStep(p, {1}, BOOLEAN)
             \/ UpdateStep(p, Users)
             \/ LikeStep(p, Users)
             \/ RequestStep(p, Users, Messages, MaxRequests)
             \/ RespondStep(p, Users)
    /\ Unobserved

Spec == Init /\ [][Next]_vars

\* The handshake between the two users of a pair, each with an entry of
\* their own, the calls do not overlap.  The tables stay finite without a
\* bound: one entry a user, one request a sender and entry.
NextPair ==
    /\ \/ Tick
       \/ \E p \in SeqProcs :
             \/ CreateStep(p, Pair, BOOLEAN)
             \/ UpdateStep(p, Pair)
             \/ LikeStep(p, Pair)
             \/ RequestStep(p, Pair, {"hello"}, 4)
             \/ RespondStep(p, Pair)
    /\ Unobserved

SpecPair == Init /\ [][NextPair]_vars

\* The requests that user 1 receives for an entry from users 2 and 3 at
\* different times, and the lists of pending requests the three read, the
\* calls do not overlap.
NextPending ==
    /\ \/ Tick
       \/ \E p \in SeqProcs :
             \/ CreateStep(p, {1}, {TRUE})
             \/ LikeStep(p, {2, 3})
             \/ RequestStep(p, Users, {"hello"}, 4)
             \/ RespondStep(p, {1})
             \/ \E u \in Users : get_pending_contact_requests_call(p, u)
    /\ Unobserved

SpecPending == Init /\ [][NextPending]_vars

\* The handshake around the entry of user 1 with the callers keeping the
\* arguments of their calls: all three users call, with every id, the calls
\* do not overlap.  The tables stay finite without a bound.
NextCalls ==
    \E p \in SeqProcs :
       \/ (CreateStep(p, {1}, BOOLEAN) \/ UpdateStep(p, {1})) /\ Forgotten(p)
       \/ LikeCall(p, Users)
       \/ RequestCall(p, Users, {"hello"}, 4)
       \/ RespondCall(p, Users)

SpecCalls == Init /\ [][NextCalls]_vars

\* The shortest handshake that opens a conversation: user 1 shares an entry,
\* user 2 likes it and sends a request, user 1 responds.
Opening(p) ==
    \/ CreateStep(p, {1}, {TRUE})
    \/ LikeStep(p, {2})
    \/ RequestStep(p, Pair, {"hello"}, 4)
    \/ RespondStep(p, {1})

\* The messaging in the conversation of users 1 and 2, user 3 calling too,
\* the callers keeping their arguments, the calls not overlapping, all at
\* one reading of the clock.
NextMsg ==
    \E p \in SeqProcs :
       \/ Opening(p) /\ Forgotten(p)
       \/ \E u \in Pair :
             /\ get_pending_contact_requests_call(p, u)
             /\ Called(p, "get_pending_contact_requests", <<u>>, FALSE, "")
       \/ MessagingCall(p, Users)

SpecMsg == Init /\ [][NextMsg]_vars

\* Users 1 and 2 send in their conversation through two workers, the calls
\* overlapping.
NextConcMsg ==
    /\ \/ Tick
       \/ \E p \in SeqProcs : Opening(p)
       \/ \E p \in Procs : SendStep(p, Pair)
    /\ Unobserved

SpecConcMsg == Init /\ [][NextConcMsg]_vars

\* Users 1 and 2 send and mark as read in their conversation through two
\* workers, the calls overlapping, all at one reading of the clock.
NextConcRead ==
    /\ \/ \E p \in SeqProcs : Opening(p)
       \/ \E p \in Procs : SendStep(p, Pair) \/ MarkStep(p, Pair)
    /\ Unobserved

SpecConcRead == Init /\ [][NextConcRead]_vars

\* User 1 writes the entry of one date through two workers, the calls
\* overlapping.
NextConcCreate == \E p \in Procs : EntryCall(p, {1}, Reflections)

SpecConcCreate == Init /\ [][NextConcCreate]_vars

\* Users 1 and 2 write their entries of one date and try each other's, at
\* different times, the callers keeping their arguments, the calls do not
\* overlap.
NextEntries ==
    \/ Tick /\ Unobserved
    \/ \E p \in SeqProcs : EntryCall(p, Pair, Reflections)

SpecEntries == Init /\ [][NextEntries]_vars

\* The whole way from an entry to a message among three users, user 1 the
\* author, the calls do not overlap, all at one reading of the clock.
NextHandshake ==
    /\ \E p \in SeqProcs :
          \/ CreateStep(p, {1}, BOOLEAN)
          \/ UpdateStep(p, {1})
          \/ LikeStep(p, Users)
          \/ RequestStep(p, Users, {"hello"}, 4)
          \/ RespondStep(p, Users)
          \/ SendStep(p, Users)
    /\ Unobserved

SpecHandshake == Init /\ [][NextHandshake]_vars

\* The first worker of the runs in which calls overlap: the handshake of
\* a pair over shared entries.
FirstWorker(p) ==
    \/ CreateStep(p, Pair, {TRUE})
    \/ LikeStep(p, Pair)
    \/ RequestStep(p, Pair, {"hello"}, 4)
    \/ RespondStep(p, Pair)

\* Two workers toggle likes on the shared entries of a pair, their calls
\* overlapping.
NextConcLike ==
    /\ \/ \E p \in SeqProcs : CreateStep(p, Pair, {TRUE})
       \/ \E p \in Procs : LikeStep(p, Pair)
    /\ Unobserved

SpecConcLike == Init /\ [][NextConcLike]_vars

\* Two workers send contact requests, their calls overlapping, after likes
\* on the shared entries of a pair.
NextConcSend ==
    /\ \/ \E p \in SeqProcs : CreateStep(p, Pair, {TRUE}) \/ LikeStep(p, Pair)
       \/ \E p \in Procs : RequestStep(p, Pair, {"hello"}, 4)
    /\ Unobserved

SpecConcSend == Init /\ [][NextConcSend]_vars

\* A second worker responds to contact requests while the first is in
\* calls of its own.
NextConcRespond ==
    /\ \/ \E p \in SeqProcs : FirstWorker(p)
       \/ \E p \in Procs \ SeqProcs : RespondStep(p, Pair)
    /\ Unobserved

SpecConcRespond == Init /\ [][NextConcRespond]_vars

(* ------------------------------- claims ------------------------------- *)
\* worker p's call of op, having passed the call's first check, returns in
\* this step
Returns(p, op) ==
    txn[p].pc # "idle" /\ txn'[p].pc = "idle" /\ ret'[p].op = op

\* the two users a row is between
Between(a, b) == {a, b}

\* worker p's caller calls op in this step, having kept the arguments
Calls(p, op) ==
    /\ txn[p].pc = "idle"
    /\ call'[p].op = op
    /\ \/ txn'[p].pc # "idle"
       \/ call'[p] # call[p]
       \/ ret'[p].op # ret[p].op
       \/ ret'[p].res # ret[p].res

\* C1: once a contact request is Accepted or Declined, a later
\* respond_to_contact_request on it returns None and the request's status
\* and responded_at stay as the first response left them.
C1_TerminalState ==
    [][/\ \A r \in requests : r.status # PENDING => r \in requests'
       /\ \A p \in Procs :
            Returns(p, "respond_to_contact_request")
            /\ (\E r \in Get(requests, txn[p].rid) : r.status # PENDING)
            => ret'[p].res = None]_vars

\* C2: when the overlapping calls of two workers accept different requests
\* between the same two users, the pair has at most one conversation row.
C2_OneConversationPerPair ==
    (/\ \A p \in Procs : /\ ret[p].op = "respond_to_contact_request"
                         /\ ret[p].res # None
     /\ \A p, q \in Procs : p # q => ret[p].res # ret[q].res
     /\ \A r \in requests : r.status = ACCEPTED)
    => \A c1, c2 \in convs :
          Between(c1.user1_id, c1.user2_id) = Between(c2.user1_id, c2.user2_id)
          => c1 = c2

\* C3: every conversation is matched by a contact request between its two
\* users whose status is Accepted.
C3_ConversationHasAcceptedRequest ==
    \A c \in convs :
       \E r \in requests :
          /\ r.status = ACCEPTED
          /\ Between(r.sender_id, r.recipient_id)
               = Between(c.user1_id, c.user2_id)

\* C4: every conversation row holds the lower user id first, and after
\* calls that do not overlap a pair with an accepted request has exactly
\* one conversation row.
C4_CanonicalOrder ==
    /\ \A c \in convs : c.user1_id < c.user2_id
    /\ \A c1, c2 \in convs :
          Between(c1.user1_id, c1.user2_id) = Between(c2.user1_id, c2.user2_id)
          => c1 = c2
    /\ \A r \in requests :
          r.status = ACCEPTED
          => \E c \in convs :
                Between(c.user1_id, c.user2_id)
                  = Between(r.sender_id, r.recipient_id)

\* requests of each of two users to the other are both accepted and share
\* the one conversation
C4_Witness ==
    /\ \E r1, r2 \in requests :
          /\ r1.sender_id = r2.recipient_id /\ r1.recipient_id = r2.sender_id
          /\ r1.status = ACCEPTED /\ r2.status = ACCEPTED
    /\ Cardinality(convs) = 1

\* C5: send_contact_request by a sender with no like on the entry returns
\* None and adds no request, whatever the message; by a sender who likes
\* the entry it returns a request of that sender for that entry, and a
\* request it adds is Pending.
C5_LikeGate ==
    [][\A p \in Procs :
         Returns(p, "send_contact_request") =>
           IF LikesOf(txn[p].uid, txn[p].eid) = {}
           THEN ret'[p].res = None /\ requests' = requests
           ELSE \E x \in requests' :
                  /\ x.id = ret'[p].res
                  /\ x.sender_id = txn[p].uid
                  /\ x.daily_entry_id = txn[p].eid
                  /\ \/ requests' = requests
                     \/ x.status = PENDING /\ requests' = requests \cup {x}]_vars

\* a sender with no like is at the like gate while a request sent after a
\* like is Pending
C5_Witness ==
    /\ \E x \in requests :
          x.status = PENDING /\ LikesOf(x.sender_id, x.daily_entry_id) # {}
    /\ \E p \in Procs :
          /\ txn[p].pc = "scr_has_liked"
          /\ LikesOf(txn[p].uid, txn[p].eid) = {}

\* C6: a send_contact_request for a (sender, recipient, entry) that already
\* has a request returns that request's id and leaves the table as it is:
\* no second row, and the message, status, created_at and responded_at of
\* the existing one unchanged, also when the message differs.
C6_IdempotentSend ==
    [][\A p \in Procs :
         LET existing == RequestsFor(txn[p].uid, txn[p].other, txn[p].eid) IN
         /\ Returns(p, "send_contact_request")
         /\ existing # {}
         /\ LikesOf(txn[p].uid, txn[p].eid) # {}
         => /\ requests' = requests
            /\ Cardinality(existing) = 1
            /\ \E x \in existing : ret'[p].res = x.id]_vars

\* a second send is about to find the request of the first, which carries
\* another message and an earlier created_at and has been responded to
C6_Witness ==
    \E p \in Procs :
       /\ txn[p].pc = "scr_select"
       /\ \E x \in RequestsFor(txn[p].uid, txn[p].other, txn[p].eid) :
             /\ x.message # txn[p].msg
             /\ x.created_at < clock
             /\ x.status # PENDING

\* the entries of get_user_conversations(u) that name user v
ConversationsNaming(u, v) ==
    LET list == get_user_conversations(u)
    IN  {i \in 1..Len(list) :
           list[i].other_user_display_name = DisplayName(v)}

\* C7: after an accept succeeds, the sender's and the recipient's
\* conversation lists each hold exactly one conversation with the other,
\* under the other's display name and with the same id, also when the
\* conversation was there from an earlier accepted request.
C7_OneSharedConversation ==
    \A p \in Procs :
       ret[p].op = "respond_to_contact_request" /\ ret[p].res # None =>
         \A x \in Get(requests, ret[p].res) :
            x.status = ACCEPTED =>
              LET mine == ConversationsNaming(x.sender_id, x.recipient_id)
                  theirs == ConversationsNaming(x.recipient_id, x.sender_id)
              IN  /\ Cardinality(mine) = 1
                  /\ Cardinality(theirs) = 1
                  /\ \A i \in mine, j \in theirs :
                        get_user_conversations(x.sender_id)[i].id
                          = get_user_conversations(x.recipient_id)[j].id

\* an accept has just returned, and it is the second between the pair: the
\* conversation of the first is reused
C7_Witness ==
    /\ \E p \in Procs :
          /\ ret[p].op = "respond_to_contact_request"
          /\ \E x \in Get(requests, ret[p].res) : x.status = ACCEPTED
    /\ Cardinality({r \in requests : r.status = ACCEPTED}) = 2
    /\ Cardinality(convs) = 1

\* C8: in every state another worker can read, a request that is Accepted
\* has a conversation between its two users, and a conversation row comes
\* into being only together with a request between its users being
\* Accepted.
C8_AcceptAtomic ==
    [][/\ \A r \in requests' :
            r.status = ACCEPTED
            => \E c \in convs' :
                  Between(c.user1_id, c.user2_id)
                    = Between(r.sender_id, r.recipient_id)
       /\ \A c \in convs' \ convs :
            \E r \in requests' :
               /\ r.status = ACCEPTED
               /\ Between(c.user1_id, c.user2_id)
                    = Between(r.sender_id, r.recipient_id)]_vars

\* a worker reads the conversations in the middle of its own accept while a
\* request is Accepted
C8_Witness ==
    /\ \E r \in requests : r.status = ACCEPTED
    /\ \E p \in Procs : txn[p].pc = "rcr_create_conversation"

\* C9: a user has at most one like row on an entry, so that
\* get_entry_likes_count counts no user twice.
C9_OneLikePerUser ==
    \A e \in EntryIds :
       /\ \A u \in Users : Cardinality(LikesOf(u, e)) <= 1
       /\ get_entry_likes_count(e)
            = Cardinality({l.user_id : l \in {x \in likes : x.daily_entry_id = e}})

\* C10: a (sender, recipient, entry) triple has at most one contact request
\* row.
C10_OneRequestPerTriple ==
    \A x, y \in requests :
       (/\ x.sender_id = y.sender_id
        /\ x.recipient_id = y.recipient_id
        /\ x.daily_entry_id = y.daily_entry_id)
       => x = y

\* C11: every contact request is addressed to the author of the entry it
\* references, and a send_contact_request whose recipient is not the
\* entry's author returns None at once and adds no request.
C11_RecipientIsAuthor ==
    [][/\ \A x \in requests' :
            \E e \in Get(entries', x.daily_entry_id) :
               e.author_id = x.recipient_id
       /\ \A p \in Procs :
            /\ Calls(p, "send_contact_request")
            /\ \E e \in Get(entries, call'[p].ids[3]) :
                  e.author_id # call'[p].ids[2]
            => /\ txn'[p].pc = "idle"
               /\ ret'[p].res = None
               /\ requests' = requests]_vars

\* a sender who likes a shared entry has just asked for a request addressed
\* to a third user, and got None
C11_Witness ==
    \E p \in Procs :
       /\ call[p].op = "send_contact_request"
       /\ ret[p] = [op |-> "send_contact_request", res |-> None]
       /\ \E e \in Get(entries, call[p].ids[3]) :
             /\ e.is_shared
             /\ call[p].ids[2] \notin {e.author_id, call[p].ids[1]}
             /\ LikesOf(call[p].ids[1], e.id) # {}
             /\ RequestsFor(call[p].ids[1], e.author_id, e.id) # {}

\* C12: respond_to_contact_request by anyone but the request's recipient,
\* the sender included, or with the id of no request, returns None at once
\* and changes no request and no conversation, whatever accept is.
C12_OnlyAddresseeResponds ==
    [][\A p \in Procs :
         /\ Calls(p, "respond_to_contact_request")
         /\ \/ Get(requests, call'[p].ids[1]) = {}
            \/ \E x \in Get(requests, call'[p].ids[1]) :
                  x.recipient_id # call'[p].ids[2]
         => /\ txn'[p].pc = "idle"
            /\ ret'[p].res = None
            /\ requests' = requests
            /\ convs' = convs]_vars

\* the sender of a Pending request has just tried to accept it, and got
\* None
C12_Witness ==
    \E p \in Procs :
       /\ call[p].op = "respond_to_contact_request"
       /\ call[p].flag
       /\ ret[p] = [op |-> "respond_to_contact_request", res |-> None]
       /\ \E x \in Get(requests, call[p].ids[1]) :
             x.sender_id = call[p].ids[2] /\ x.status = PENDING
       /\ convs = {}

\* the likes table after one more toggle_like(u, e) from this state
ToggledAgain(u, e) ==
    IF LikesOf(u, e) = {} THEN LikesAfterToggle(None, u, e)
    ELSE LikesAfterToggle((CHOOSE l \in LikesOf(u, e) : TRUE).id, u, e)

\* C13: a toggle_like(u, e) that passes the guard likes and returns True
\* when u had no like on e, unlikes and returns False when u had one, and
\* moves the entry's likes count by one; the next toggle_like(u, e) brings
\* the count and u's like state back to what they were before the two.
C13_ToggleTwiceRestores ==
    [][\A p \in Procs :
         Returns(p, "toggle_like") =>
           \A u \in {txn[p].uid}, e \in {txn[p].eid} :
           \A count \in {get_entry_likes_count(e)},
              liked \in {user_has_liked_entry(u, e)} :
              /\ ret'[p].res = ~liked
              /\ user_has_liked_entry(u, e)' = ~liked
              /\ get_entry_likes_count(e)'
                   = IF liked THEN count - 1 ELSE count + 1
              /\ \A l \in likes \cup likes' :
                    (l \in likes) # (l \in likes')
                    => l.user_id = u /\ l.daily_entry_id = e
              /\ Cardinality({l \in ToggledAgain(u, e)' :
                                 l.daily_entry_id = e}) = count
              /\ (\E l \in ToggledAgain(u, e)' :
                     l.user_id = u /\ l.daily_entry_id = e) = liked]_vars

\* a user's second toggle_like on a shared entry of another user has just
\* returned False and left the like of a third user alone
C13_Witness ==
    \E p \in Procs :
       /\ call[p].op = "toggle_like"
       /\ ret[p] = [op |-> "toggle_like", res |-> FALSE]
       /\ \E x \in Get(entries, call[p].ids[2]) :
             /\ x.is_shared
             /\ x.author_id # call[p].ids[1]
             /\ LikesOf(call[p].ids[1], x.id) = {}
             /\ get_entry_likes_count(x.id) = 1

\* C14: toggle_like by the author of the entry returns False at once and
\* changes no like, and no entry ever has a like of its author.
C14_NoSelfLike ==
    [][/\ \A p \in Procs :
            /\ Calls(p, "toggle_like")
            /\ \E x \in Get(entries, call'[p].ids[2]) :
                  x.author_id = call'[p].ids[1]
            => /\ txn'[p].pc = "idle"
               /\ ret'[p].res = FALSE
               /\ likes' = likes
       /\ \A l \in likes' :
            \A x \in Get(entries', l.daily_entry_id) :
               x.author_id # l.user_id]_vars

\* the author of a shared entry that two others like has just called
\* toggle_like on it, and got False
C14_Witness ==
    \E p \in Procs :
       /\ call[p].op = "toggle_like"
       /\ ret[p] = [op |-> "toggle_like", res |-> FALSE]
       /\ \E x \in Get(entries, call[p].ids[2]) :
             /\ x.is_shared
             /\ x.author_id = call[p].ids[1]
             /\ get_entry_likes_count(x.id) = 2

\* C15: toggle_like on an entry that does not exist or is not shared
\* returns False at once and neither adds nor removes a like.
C15_LikeNeedsSharedEntry ==
    [][\A p \in Procs :
         /\ Calls(p, "toggle_like")
         /\ \/ Get(entries, call'[p].ids[2]) = {}
            \/ \E x \in Get(entries, call'[p].ids[2]) : ~x.is_shared
         => /\ txn'[p].pc = "idle"
            /\ ret'[p].res = FALSE
            /\ likes' = likes]_vars

\* a user who liked an entry while it was shared has just called toggle_like
\* on it after its author stopped sharing it, and got False: the like stays
C15_Witness ==
    \E p \in Procs :
       /\ call[p].op = "toggle_like"
       /\ ret[p] = [op |-> "toggle_like", res |-> FALSE]
       /\ \E x \in Get(entries, call[p].ids[2]) :
             /\ ~x.is_shared
             /\ x.author_id # call[p].ids[1]
             /\ LikesOf(call[p].ids[1], x.id) # {}

\* C16: send_message by a user who is not one of the conversation's two, or
\* to the id of no conversation, returns None at once and leaves the
\* messages and the conversations (last_message_at included) as they were.
C16_OnlyParticipantsSend ==
    [][\A p \in Procs :
         /\ Calls(p, "send_message")
         /\ \/ Get(convs, call'[p].ids[2]) = {}
            \/ \E c \in Get(convs, call'[p].ids[2]) :
                  call'[p].ids[1] \notin {c.user1_id, c.user2_id}
         => /\ txn'[p].pc = "idle"
            /\ ret'[p].res = None
            /\ messages' = messages
            /\ convs' = convs]_vars

\* a third user has just tried to send into a conversation that holds a
\* message, and got None
C16_Witness ==
    \E p \in Procs :
       /\ call[p].op = "send_message"
       /\ ret[p] = [op |-> "send_message", res |-> None]
       /\ \E c \in Get(convs, call[p].ids[2]) :
             /\ call[p].ids[1] \notin {c.user1_id, c.user2_id}
             /\ c.last_message_at # None
             /\ Cardinality({m \in messages : m.conversation_id = c.id}) = 1

\* C17: a send_message that succeeds adds exactly one message, unread, of
\* the sender in the conversation, and sets the conversation's
\* last_message_at in the same commit; in every state a worker can read a
\* conversation's last_message_at is None exactly when it has no message.
C17_SendIsOneCommit ==
    [][/\ \A p \in Procs :
            Returns(p, "send_message") =>
              \E m \in messages' :
                 /\ m \notin messages
                 /\ messages' = messages \cup {m}
                 /\ ~m.is_read
                 /\ m.conversation_id = txn[p].cid
                 /\ m.sender_id = txn[p].uid
                 /\ ret'[p].res = m.id
                 /\ \A c \in Get(convs', m.conversation_id) :
                       c.last_message_at = txn[p].stamp
       /\ \A c \in convs' :
            (c.last_message_at = None)
              = ({m \in messages' : m.conversation_id = c.id} = {})]_vars

\* a send has succeeded while the send of another worker is before its
\* commit, reading the tables
C17_Witness ==
    \E p, q \in Procs :
       /\ txn[p].pc = "sm_commit"
       /\ ret[q].op = "send_message" /\ ret[q].res # None
       /\ \E c \in Get(convs, txn[p].cid) :
             /\ c.last_message_at # None
             /\ \E m \in messages : m.conversation_id = c.id /\ ~m.is_read

\* C18: for a user who is not one of a conversation's two,
\* get_conversation_messages can return only the empty list, whatever the
\* conversation holds and whatever the limit, which is also all it can
\* return for the id of no conversation: the answer does not depend on the
\* state, and a call that gets it changes nothing.
C18_ProbingResistance ==
    [][/\ \A u \in Users, c \in ConversationIds, limit \in Limits :
            (\A x \in Get(convs, c) : u \notin {x.user1_id, x.user2_id})
            => get_conversation_messages(c, u, limit) = {<<>>}
       /\ \A p \in Procs :
            /\ Calls(p, "get_conversation_messages")
            /\ \A x \in Get(convs, call'[p].ids[1]) :
                  call'[p].ids[2] \notin {x.user1_id, x.user2_id}
            => /\ txn'[p].pc = "idle"
               /\ ret'[p].res = <<>>
               /\ UNCHANGED db]_vars

\* a third user has just asked for the messages of a conversation that
\* holds two, and got the empty list
C18_Witness ==
    \E p \in Procs :
       /\ call[p].op = "get_conversation_messages"
       /\ ret[p].op = "get_conversation_messages"
       /\ ret[p].res = <<>>
       /\ \E x \in Get(convs, call[p].ids[1]) :
             /\ call[p].ids[2] \notin {x.user1_id, x.user2_id}
             /\ Cardinality({m \in messages : m.conversation_id = x.id}) = 2

\* C19: after mark_messages_as_read(c, u) by one of the conversation's two,
\* every message of c that the other one sent is read and u's unread count
\* for c is 0; nothing else changes; and a call made when that count is
\* already 0 changes no message.
C19_MarkReadIdempotent ==
    [][\A p \in Procs :
         Returns(p, "mark_messages_as_read") =>
           \A c \in {txn[p].cid}, u \in {txn[p].uid} :
              /\ ret'[p].res = TRUE
              /\ \A m \in messages' :
                    m.conversation_id = c /\ m.sender_id # u => m.is_read
              /\ UnreadCount(c, u)' = 0
              /\ \A i \in 1..Len(get_user_conversations(u)') :
                    get_user_conversations(u)'[i].id = c
                    => get_user_conversations(u)'[i].unread_count = 0
              /\ \A m \in messages :
                    \/ m \in messages'
                    \/ /\ m.conversation_id = c /\ m.sender_id # u /\ ~m.is_read
                       /\ [m EXCEPT !.is_read = TRUE] \in messages'
              /\ Cardinality(messages') = Cardinality(messages)
              /\ UnreadCount(c, u) = 0 => messages' = messages
              /\ UNCHANGED <<entries, likes, requests, convs>>]_vars

\* a repeated mark_messages_as_read is before its commit: it found nothing
\* to mark, the other user's message being read already, while the
\* reader's own message is still unread
C19_Witness ==
    \E p \in Procs :
       /\ txn[p].pc = "mr_commit"
       /\ txn[p].ids = {}
       /\ \E m \in messages :
             /\ m.conversation_id = txn[p].cid
             /\ m.sender_id # txn[p].uid
             /\ m.is_read
       /\ \E m \in messages :
             /\ m.conversation_id = txn[p].cid
             /\ m.sender_id = txn[p].uid
             /\ ~m.is_read

\* C20: the unread_count of each conversation in get_user_conversations(u)
\* is the number of that conversation's messages that another user sent
\* and that are not read; the list holds the conversations u is in, and a
\* call returns that list.
C20_UnreadCount ==
    /\ \A u \in Users :
          /\ {get_user_conversations(u)[i].id :
                 i \in 1..Len(get_user_conversations(u))}
               = {c.id : c \in {x \in convs : u \in {x.user1_id, x.user2_id}}}
          /\ \A i \in 1..Len(get_user_conversations(u)) :
                get_user_conversations(u)[i].unread_count
                  = Cardinality({m \in messages :
                       /\ m.conversation_id = get_user_conversations(u)[i].id
                       /\ m.sender_id # u
                       /\ ~m.is_read})
    /\ \A p \in Procs :
          call[p].op = "get_user_conversations"
          /\ ret[p].op = "get_user_conversations"
          => ret[p].res = get_user_conversations(call[p].ids[1])

\* one user has sent the only message and the other, not having read it,
\* has just listed the conversations: 1 unread for the other, 0 for the
\* sender
C20_Witness ==
    \E p \in Procs, m \in messages :
       /\ messages = {m}
       /\ ~m.is_read
       /\ call[p].op = "get_user_conversations"
       /\ ret[p].op = "get_user_conversations"
       /\ call[p].ids[1] # m.sender_id
       /\ Len(ret[p].res) = 1
       /\ ret[p].res[1].id = m.conversation_id
       /\ ret[p].res[1].unread_count = 1
       /\ Len(get_user_conversations(m.sender_id)) = 1
       /\ get_user_conversations(m.sender_id)[1].unread_count = 0

\* C21: the is_read flag of a message is monotone: a message is inserted
\* unread, the only step that sets the flag is the commit of a
\* mark_messages_as_read call made in the message's conversation by the
\* participant who did not send it, no step clears the flag, and the commit
\* of a call made by the sender leaves the sender's own messages as they are.
C21_IsReadMonotone ==
    [][/\ \A n \in messages' :
             (\A m \in messages : m.id # n.id) => ~n.is_read
       /\ \A m \in messages :
             \E n \in messages' :
                /\ n.id = m.id
                /\ m.is_read => n.is_read
                /\ (~m.is_read /\ n.is_read) =>
                      \E p \in Procs :
                         /\ Returns(p, "mark_messages_as_read")
                         /\ txn[p].cid = m.conversation_id
                         /\ txn[p].uid # m.sender_id
                         /\ ~NotParticipant(Get(convs, txn[p].cid), txn[p].uid)
       /\ \A p \in Procs :
             Returns(p, "mark_messages_as_read") =>
                \A m \in messages :
                   (m.sender_id = txn[p].uid /\ ~m.is_read) => m \in messages'
      ]_vars

\* a sender's mark_messages_as_read has selected nothing although the
\* sender's own message is unread, and a message of the other user is read
C21_Witness ==
    \E p \in Procs :
       /\ txn[p].pc = "mr_commit"
       /\ txn[p].ids = {}
       /\ \E m \in messages :
             /\ m.conversation_id = txn[p].cid
             /\ m.sender_id = txn[p].uid
             /\ ~m.is_read
       /\ \E n \in messages : n.sender_id # txn[p].uid /\ n.is_read

\* C22: mark_messages_as_read called with a conversation id that no row
\* has, or by a user who is neither of the conversation's two, returns False
\* and changes no message.
C22_MarkReadRejected ==
    [][\A p \in Procs :
          (/\ Calls(p, "mark_messages_as_read")
           /\ \A c \in convs :
                 c.id = call'[p].ids[1]
                 => call'[p].ids[2] \notin {c.user1_id, c.user2_id})
          => /\ ret'[p] = [op |-> "mark_messages_as_read", res |-> FALSE]
             /\ txn'[p].pc = "idle"
             /\ messages' = messages
      ]_vars

\* user 3 has called in a conversation of users 1 and 2 that holds an
\* unread message, and was refused
C22_Witness ==
    \E p \in Procs, c \in convs :
       /\ ret[p] = [op |-> "mark_messages_as_read", res |-> FALSE]
       /\ call[p].op = "mark_messages_as_read"
       /\ call[p].ids = <<c.id, 3>>
       /\ \E m \in messages : m.conversation_id = c.id /\ ~m.is_read

\* C23: every message references exactly one conversation row, and its
\* sender is user1_id or user2_id of that conversation.
C23_MessageInConversation ==
    \A m \in messages :
       /\ Cardinality(Get(convs, m.conversation_id)) = 1
       /\ \A c \in Get(convs, m.conversation_id) :
             m.sender_id \in {c.user1_id, c.user2_id}

\* both participants have sent, and user 3 has been refused
C23_Witness ==
    /\ \E m, n \in messages : m.sender_id # n.sender_id
    /\ \E p \in Procs :
          /\ call[p].op = "send_message"
          /\ call[p].ids[1] = 3
          /\ ret[p].op = "send_message"
          /\ ret[p].res = None

\* the ids of the messages of conversation c
MessageIds(c) == {m.id : m \in {x \in messages : x.conversation_id = c}}

\* C24: whichever participant asks and in whatever order the sends of the
\* two committed, every list get_conversation_messages may return is in
\* ascending order of created_at, and with a limit above the number of
\* messages it holds each message of the conversation once.
C24_OldestFirst ==
    \A c \in convs :
       \A u \in {c.user1_id, c.user2_id}, limit \in Limits :
          \A list \in get_conversation_messages(c.id, u, limit) :
             /\ \A i, j \in 1..Len(list) :
                   i < j => list[i].created_at <= list[j].created_at
             /\ \A i, j \in 1..Len(list) : i # j => list[i].id # list[j].id
             /\ limit >= Cardinality(MessageIds(c.id))
                => {list[i].id : i \in 1..Len(list)} = MessageIds(c.id)

\* the two participants have each sent a message, and the message that was
\* created first was committed second
C24_Witness ==
    \E m, n \in messages :
       /\ m.conversation_id = n.conversation_id
       /\ m.sender_id # n.sender_id
       /\ m.id < n.id
       /\ m.created_at > n.created_at

\* C25: get_conversation_messages returns limit messages when the
\* conversation holds more than limit and all of them otherwise, and none
\* of the messages it leaves out was created after one that it returns.
C25_LimitKeepsNewest ==
    \A c \in convs :
       \A u \in {c.user1_id, c.user2_id}, limit \in Limits :
          \A list \in get_conversation_messages(c.id, u, limit) :
             LET returned == {list[i].id : i \in 1..Len(list)}
                 held == Cardinality(MessageIds(c.id))
             IN  /\ Len(list) = IF held > limit THEN limit ELSE held
                 /\ Cardinality(returned) = Len(list)
                 /\ returned \subseteq MessageIds(c.id)
                 /\ \A m \in messages :
                       (m.conversation_id = c.id /\ m.id \notin returned)
                       => \A i \in 1..Len(list) :
                             list[i].created_at >= m.created_at

\* a conversation holds more messages than the smallest limit, created at
\* different times
C25_Witness ==
    \E m, n \in messages :
       /\ m.conversation_id = n.conversation_id
       /\ m.created_at < n.created_at
       /\ \E limit \in Limits : limit < Cardinality(MessageIds(m.conversation_id))

\* C26: every list get_pending_contact_requests(user) may return holds each
\* request with recipient_id = user and status Pending once and nothing
\* else, so none that was accepted or declined and none addressed to
\* another user, and a request never stands before one created after it.
C26_PendingList ==
    \A u \in Users :
       \A list \in get_pending_contact_requests(u) :
          /\ {list[i] : i \in 1..Len(list)}
                = {r \in requests : r.recipient_id = u /\ r.status = PENDING}
          /\ \A i, j \in 1..Len(list) :
                /\ i # j => list[i].id # list[j].id
                /\ i < j => list[i].created_at >= list[j].created_at

\* user 1 has answered the older of two requests and then read a list that
\* holds the newer one alone
C26_Witness ==
    \E p \in Procs, r \in requests :
       /\ ret[p].op = "get_pending_contact_requests"
       /\ Len(ret[p].res) = 1
       /\ ret[p].res[1] \in requests
       /\ r.recipient_id = ret[p].res[1].recipient_id
       /\ r.status # PENDING
       /\ r.created_at < ret[p].res[1].created_at

\* the conversation rows by what never changes in them
ConversationRows == {<<c.id, c.user1_id, c.user2_id>> : c \in convs}

\* C27: no step removes a conversation row, and the only step that adds one
\* is the commit of a respond_to_contact_request call that accepts: the
\* steps of toggle_like, send_contact_request, a declining response,
\* send_message, mark_messages_as_read and the reads leave the rows as they
\* are.
C27_ConversationsOnlyByAccept ==
    [][/\ ConversationRows \subseteq ConversationRows'
       /\ ConversationRows' # ConversationRows
          => \E p \in Procs :
                /\ Returns(p, "respond_to_contact_request")
                /\ txn[p].flag
                /\ \E r \in requests' :
                      r.id = txn[p].rid /\ r.status = ACCEPTED
      ]_vars

\* the request that opened a conversation has since been declined, and
\* the conversation is still there with a message that was read
C27_Witness ==
    /\ \E r \in requests, c \in convs :
          /\ r.status = DECLINED
          /\ OrderedPair(r.sender_id, r.recipient_id) = <<c.user1_id, c.user2_id>>
    /\ \E m \in messages : m.is_read

\* C28: an accepting respond_to_contact_request call that commits returns
\* its request with status Accepted, and when the conversation of the pair
\* was committed by another call in the meantime it adds no row of its own.
C28_LoserUsesWinnersRow ==
    [][\A p \in Procs :
          (Returns(p, "respond_to_contact_request") /\ txn[p].flag)
          => /\ ret'[p].res = txn[p].rid
             /\ \E r \in requests' : r.id = txn[p].rid /\ r.status = ACCEPTED
             /\ ConversationsOf(OrderedPair(txn[p].other, txn[p].uid)) # {}
                => convs' = convs
      ]_vars

\* the states of the scenario of users A = 1 and B = 2: A's shared entry E
\* alone
ScenarioEntry ==
    /\ \E e \in entries : entries = {e} /\ e.author_id = 1 /\ e.is_shared
    /\ likes = {} /\ requests = {} /\ convs = {} /\ messages = {}

\* E and B's like of it
ScenarioLiked ==
    /\ \E e \in entries, l \in likes :
          /\ entries = {e} /\ e.author_id = 1 /\ e.is_shared
          /\ likes = {l} /\ l.user_id = 2 /\ l.daily_entry_id = e.id
    /\ requests = {} /\ convs = {} /\ messages = {}

\* the like and B's request to A with the given status
ScenarioRequest(status) ==
    \E e \in entries, l \in likes, r \in requests :
       /\ entries = {e} /\ e.author_id = 1 /\ e.is_shared
       /\ likes = {l} /\ l.user_id = 2 /\ l.daily_entry_id = e.id
       /\ requests = {r} /\ r.sender_id = 2 /\ r.recipient_id = 1
       /\ r.daily_entry_id = e.id /\ r.status = status

\* the request pending, nothing more
ScenarioRequested == ScenarioRequest(PENDING) /\ convs = {} /\ messages = {}

\* the request accepted and the conversation empty
ScenarioAccepted ==
    ScenarioRequest(ACCEPTED) /\ Cardinality(convs) = 1 /\ messages = {}

\* B's message in the conversation, read or not
ScenarioSent(read) ==
    /\ ScenarioRequest(ACCEPTED)
    /\ \E c \in convs, m \in messages :
          /\ convs = {c} /\ messages = {m}
          /\ m.conversation_id = c.id /\ m.sender_id = 2 /\ m.is_read = read

\* the one entry of get_user_conversations(u) names user v and counts n
\* unread messages
ListsOne(list, v, n) ==
    /\ Len(list) = 1
    /\ list[1].other_user_display_name = DisplayName(v)
    /\ list[1].unread_count = n

\* C29: the calls of the scenario, each made in the state the one before
\* left, have the results the scenario tells: A creates the shared entry E;
\* B's like makes the likes count of E 1; after B's request A's pending
\* list is that request alone, sent by B; after A's accept A and B each
\* list one conversation, the same, naming the other with unread_count 0;
\* after B's message A's unread_count is 1 and B's 0; after A's
\* mark_messages_as_read A's unread_count is 0.
C29_Scenario ==
    [][\A p \in Procs :
          /\ (db = <<{}, {}, {}, {}, {}>> /\ Returns(p, "create_entry")
               /\ txn[p].uid = 1 /\ txn[p].flag)
              => ScenarioEntry'
          /\ (ScenarioEntry /\ Returns(p, "toggle_like") /\ txn[p].uid = 2
               /\ txn[p].eid \in {e.id : e \in entries})
              => /\ ScenarioLiked'
                 /\ \A e \in entries : get_entry_likes_count(e.id)' = 1
          /\ (ScenarioLiked /\ Returns(p, "send_contact_request")
               /\ txn[p].uid = 2 /\ txn[p].other = 1
               /\ txn[p].eid \in {e.id : e \in entries})
              => /\ ScenarioRequested'
                 /\ \A list \in get_pending_contact_requests(1)' :
                       /\ Len(list) = 1
                       /\ list[1].id = ret'[p].res
                       /\ DisplayName(list[1].sender_id) = DisplayName(2)
          /\ (ScenarioRequested /\ Returns(p, "respond_to_contact_request")
               /\ txn[p].uid = 1 /\ txn[p].flag)
              => /\ ScenarioAccepted'
                 /\ ListsOne(get_user_conversations(1)', 2, 0)
                 /\ ListsOne(get_user_conversations(2)', 1, 0)
                 /\ get_user_conversations(1)'[1].id
                      = get_user_conversations(2)'[1].id
          /\ (ScenarioAccepted /\ Returns(p, "send_message") /\ txn[p].uid = 2)
              => /\ ScenarioSent(FALSE)'
                 /\ ListsOne(get_user_conversations(1)', 2, 1)
                 /\ ListsOne(get_user_conversations(2)', 1, 0)
          /\ (ScenarioSent(FALSE) /\ Returns(p, "mark_messages_as_read")
               /\ txn[p].uid = 1)
              => /\ ScenarioSent(TRUE)'
                 /\ ListsOne(get_user_conversations(1)', 2, 0)
      ]_vars

\* the scenario has run to its end: A's mark_messages_as_read has returned
\* True and B's message is read
C29_Witness ==
    /\ ScenarioSent(TRUE)
    /\ \E p \in Procs, c \in convs :
          /\ call[p].op = "mark_messages_as_read"
          /\ call[p].ids = <<c.id, 1>>
          /\ ret[p] = [op |-> "mark_messages_as_read", res |-> TRUE]

\* C30: no two DailyEntry rows have the same author and entry_date, and a
\* create_entry call for a user and date that have an entry returns None
\* and leaves every row, so the entry's reflection_text and is_shared, as
\* it was.
C30_OneEntryPerDate ==
    [][/\ \A e1, e2 \in entries' :
             (e1.author_id = e2.author_id /\ e1.entry_date = e2.entry_date)
             => e1 = e2
       /\ \A p \in Procs :
             (/\ Calls(p, "create_entry")
              /\ \E e \in entries : /\ e.author_id = call'[p].ids[1]
                                     /\ e.entry_date = call'[p].ids[2])
             => /\ ret'[p] = [op |-> "create_entry", res |-> None]
                /\ txn'[p].pc = "idle"
                /\ entries' = entries
      ]_vars

\* C31: update_entry called with an entry id that no entry has, or by a
\* user who is not the entry's author, returns None and leaves every entry
\* as it was, reflection_text, is_shared and updated_at included; and no
\* step changes the author_id of an entry.
C31_AuthorOnlyEdit ==
    [][/\ \A p \in Procs :
             (/\ Calls(p, "update_entry")
              /\ \A e \in entries :
                    e.id = call'[p].ids[1] => e.author_id # call'[p].ids[2])
             => /\ ret'[p] = [op |-> "update_entry", res |-> None]
                /\ txn'[p].pc = "idle"
                /\ entries' = entries
       /\ \A e \in entries :
             \E n \in entries' : n.id = e.id /\ n.author_id = e.author_id
      ]_vars

\* a user has been refused on the entry of the other, at a time after the
\* entry was last written
C31_Witness ==
    \E p \in Procs, e \in entries :
       /\ call[p].op = "update_entry"
       /\ call[p].ids[1] = e.id
       /\ call[p].ids[2] # e.author_id
       /\ ret[p] = [op |-> "update_entry", res |-> None]
       /\ e.updated_at < clock

\* C32: while toggle_like calls of the sender overlap it, a
\* send_contact_request commits a new row only in a state in which the
\* sender's like of the entry exists.
C32_LikeHeldAtCommit ==
    [][\A p \in Procs :
          (Returns(p, "send_contact_request") /\ requests' # requests)
          => LikesOf(txn[p].uid, txn[p].eid) # {}
      ]_vars

\* C33: in every committed state of overlapping send_message calls, the
\* last_message_at of a conversation is set and is not before the
\* created_at of any of its messages.
C33_LastMessageAtCoversMessages ==
    \A c \in convs, m \in messages :
       m.conversation_id = c.id
       => /\ c.last_message_at # None
          /\ c.last_message_at >= m.created_at

\* C34: while a request is Declined, a send_contact_request of its sender
\* to its recipient for its entry that returns a request returns that one
\* and leaves the requests as they are; and once a request is not Pending
\* no request of its sender, recipient and entry is Pending after any step,
\* so that none is in a list get_pending_contact_requests may return to the
\* recipient.
C34_DeclinedStaysOut ==
    [][\A r \in requests :
          /\ r.status = DECLINED
             => \A p \in Procs :
                   (/\ Returns(p, "send_contact_request")
                    /\ txn[p].uid = r.sender_id
                    /\ txn[p].other = r.recipient_id
                    /\ txn[p].eid = r.daily_entry_id
                    /\ ret'[p].res # None)
                   => /\ ret'[p].res = r.id
                      /\ requests' = requests
          /\ r.status # PENDING
             => /\ \A x \in requests' :
                      (/\ x.sender_id = r.sender_id
                       /\ x.recipient_id = r.recipient_id
                       /\ x.daily_entry_id = r.daily_entry_id)
                      => x.status # PENDING
                /\ \A u \in {r.recipient_id} :
                      \A list \in get_pending_contact_requests(u)' :
                         \A i \in 1..Len(list) :
                            \/ list[i].sender_id # r.sender_id
                            \/ list[i].daily_entry_id # r.daily_entry_id
      ]_vars

\* a send has returned the request that its recipient had declined, while
\* the recipient has another request pending
C34_Witness ==
    \E p \in Procs, r \in requests, x \in requests :
       /\ r.status = DECLINED
       /\ ret[p] = [op |-> "send_contact_request", res |-> r.id]
       /\ x.recipient_id = r.recipient_id
       /\ x.status = PENDING

\* C35: no step of toggle_like changes a contact request, so a request
\* whose sender has unliked the entry keeps its status and, while Pending,
\* is in every list get_pending_contact_requests may return to its
\* recipient; the recipient's accept of such a request is not refused and
\* commits the status Accepted and a conversation of the two.
C35_UnlikeKeepsRequest ==
    [][/\ \A p \in Procs :
             (call'[p].op = "toggle_like" /\ txn[p].pc \in {"idle", "tl_select", "tl_commit"})
             => requests' = requests
       /\ \A r \in requests :
             LikesOf(r.sender_id, r.daily_entry_id) = {}
             => /\ r.status = PENDING
                   => \A list \in get_pending_contact_requests(r.recipient_id) :
                         \E i \in 1..Len(list) : list[i] = r
                /\ \A p \in Procs :
                      /\ (/\ Calls(p, "respond_to_contact_request")
                           /\ call'[p].ids = <<r.id, r.recipient_id>>
                           /\ call'[p].flag)
                          => txn'[p].pc # "idle"
                      /\ (/\ Returns(p, "respond_to_contact_request")
                           /\ txn[p].rid = r.id
                           /\ txn[p].flag)
                          => /\ ret'[p].res = r.id
                             /\ [r EXCEPT !.status = ACCEPTED,
                                           !.responded_at = txn[p].stamp]
                                  \in requests'
                             /\ ConversationsOf(OrderedPair(r.sender_id,
                                                            r.recipient_id))' # {}
      ]_vars

\* the recipient's accept of a request whose sender no longer likes the
\* entry has returned the request, and the conversation is there
C35_Witness ==
    \E p \in Procs, r \in requests :
       /\ LikesOf(r.sender_id, r.daily_entry_id) = {}
       /\ call[p].op = "respond_to_contact_request"
       /\ call[p].flag
       /\ ret[p] = [op |-> "respond_to_contact_request", res |-> r.id]
       /\ r.status = ACCEPTED
       /\ Cardinality(convs) = 1

\* C36: while an entry is not shared, a toggle_like on it returns False and
\* a send_contact_request for it returns None, also for a user who likes
\* it, both at once and without a write; no step changes the likes of the
\* entry, and get_entry_likes_count goes on counting them.
C36_PrivateEntryFreezesLikes ==
    [][\A e \in entries :
          ~e.is_shared
          => /\ \A p \in Procs :
                   (Calls(p, "toggle_like") /\ call'[p].ids[2] = e.id)
                   => /\ ret'[p] = [op |-> "toggle_like", res |-> FALSE]
                      /\ txn'[p].pc = "idle"
             /\ \A p \in Procs :
                   (Calls(p, "send_contact_request") /\ call'[p].ids[3] = e.id)
                   => /\ ret'[p] = [op |-> "send_contact_request", res |-> None]
                      /\ txn'[p].pc = "idle"
                      /\ requests' = requests
             /\ {l \in likes' : l.daily_entry_id = e.id}
                  = {l \in likes : l.daily_entry_id = e.id}
             /\ \A x \in {e.id} :
                   get_entry_likes_count(x)'
                     = Cardinality({l \in likes : l.daily_entry_id = x})
      ]_vars

\* a user who liked the entry while it was shared has asked for contact
\* after the author stopped sharing it, and was refused; the like is there
C36_Witness ==
    \E p \in Procs, e \in entries :
       /\ ~e.is_shared
       /\ call[p].op = "send_contact_request"
       /\ call[p].ids = <<call[p].ids[1], e.author_id, e.id>>
       /\ ret[p] = [op |-> "send_contact_request", res |-> None]
       /\ LikesOf(call[p].ids[1], e.id) # {}
       /\ get_entry_likes_count(e.id) = 2

\* C37: no like is of the author of the liked entry, no contact request
\* has its sender as recipient, and every conversation has user1_id below
\* user2_id.
C37_NoSelfInteraction ==
    /\ \A l \in likes :
          \A e \in Get(entries, l.daily_entry_id) : e.author_id # l.user_id
    /\ \A r \in requests : r.sender_id # r.recipient_id
    /\ \A c \in convs : c.user1_id < c.user2_id

\* the author has asked for contact with the author over the author's
\* entry and was refused, while others have liked, requested and been
\* accepted
C37_Witness ==
    \E p \in Procs, e \in entries :
       /\ call[p].op = "send_contact_request"
       /\ call[p].ids = <<e.author_id, e.author_id, e.id>>
       /\ ret[p] = [op |-> "send_contact_request", res |-> None]
       /\ e.is_shared
       /\ likes # {} /\ requests # {} /\ convs # {}

\* C38: after every step a contact request has no responded_at exactly
\* when its status is Pending, a request that is not Pending is not Pending
\* afterwards, and every request keeps its sender_id, recipient_id,
\* daily_entry_id, message and created_at.
C38_RequestFieldsStable ==
    [][/\ \A r \in requests' : (r.responded_at = None) <=> (r.status = PENDING)
       /\ \A r \in requests :
             \E n \in requests' :
                /\ n.id = r.id
                /\ n.sender_id = r.sender_id
                /\ n.recipient_id = r.recipient_id
                /\ n.daily_entry_id = r.daily_entry_id
                /\ n.message = r.message
                /\ n.created_at = r.created_at
                /\ r.status # PENDING => n.status # PENDING
      ]_vars

\* a request was answered after it was created, and a later send of the
\* same sender has returned it
C38_Witness ==
    \E p \in Procs, r \in requests :
       /\ r.status # PENDING
       /\ r.responded_at > r.created_at
       /\ ret[p] = [op |-> "send_contact_request", res |-> r.id]

\* C39: messaging is reached through the handshake only.  A message is
\* added only to a conversation that exists, by one of its two users; a
\* conversation is added only by the commit of an accept that the recipient
\* of a request between the two makes; a request is added only by a
\* send_contact_request whose sender has a like on the entry, which is
\* shared and of the recipient; a like is added only on a shared entry of
\* another user.  So after every step each message is between two users
\* with a conversation and a request that was answered.
C39_HandshakeBeforeMessaging ==
    [][/\ \A m \in messages' :
             (\A x \in messages : x.id # m.id)
             => /\ \E p \in Procs : /\ Returns(p, "send_message")
                                      /\ ret'[p].res = m.id
                /\ \E c \in convs :
                      /\ c.id = m.conversation_id
                      /\ m.sender_id \in {c.user1_id, c.user2_id}
       /\ \A c \in convs' :
             (\A d \in convs : d.id # c.id)
             => \E p \in Procs, r \in requests :
                   /\ Returns(p, "respond_to_contact_request")
                   /\ txn[p].flag
                   /\ r.id = txn[p].rid
                   /\ r.recipient_id = txn[p].uid
                   /\ {r.sender_id, r.recipient_id} = {c.user1_id, c.user2_id}
                   /\ \E n \in requests' : n.id = r.id /\ n.status = ACCEPTED
       /\ \A r \in requests' :
             (\A x \in requests : x.id # r.id)
             => /\ \E p \in Procs : /\ Returns(p, "send_contact_request")
                                      /\ ret'[p].res = r.id
                /\ LikesOf(r.sender_id, r.daily_entry_id) # {}
                /\ \E e \in entries : /\ e.id = r.daily_entry_id
                                       /\ e.author_id = r.recipient_id
                                       /\ e.is_shared
       /\ \A l \in likes' \ likes :
             /\ \E p \in Procs : Returns(p, "toggle_like") /\ ret'[p].res = TRUE
             /\ \E e \in entries : /\ e.id = l.daily_entry_id
                                    /\ e.author_id # l.user_id
                                    /\ e.is_shared
       /\ \A m \in messages' :
             \E c \in convs', r \in requests' :
                /\ c.id = m.conversation_id
                /\ {r.sender_id, r.recipient_id} = {c.user1_id, c.user2_id}
                /\ r.status # PENDING
      ]_vars

\* the sender of an accepted request has sent a message and the recipient
\* has answered it, while the third user has only a pending request
C39_Witness ==
    \E p \in Procs, m \in messages, n \in messages, r \in requests :
       /\ ret[p] = [op |-> "send_message", res |-> n.id]
       /\ m.id < n.id
       /\ m.sender_id = r.sender_id
       /\ n.sender_id = r.recipient_id
       /\ r.status = ACCEPTED
       /\ \E x \in requests : x.status = PENDING
       /\ Cardinality(convs) = 1

=============================================================================
